---- MODULE Spec2Model ----
(***************************************************************************)
(* TASK4.py: exploratory analysis of a traffic-accident CSV.  The script   *)
(* is a straight line of pandas / seaborn statements: load at most nrows   *)
(* rows, prune sparse columns, split by dtype, drop columns, coerce three  *)
(* columns to numeric, then a fixed list of charts.                        *)
(*                                                                         *)
(* Representation.  A column is a run-length encoded sequence of cells     *)
(* (<<[n |-> 3, c |-> x], ...>> is three rows holding x, ...), so that     *)
(* frames of 100000 rows are ordinary values.  A CSV cell is its text, a   *)
(* tuple of one-character strings; a dataframe cell is a record            *)
(* [k, v, s]: k = "nan" (missing / NaT), "num" (v = the number in          *)
(* hundredths), "str" (s = the text) or "ts" (s = the date text, v = the   *)
(* seconds since midnight).                                                *)
(*                                                                         *)
(* Calls into matplotlib / seaborn are modelled by their effect on the     *)
(* script: a chart is shown, or the lookup of a column the frame does not  *)
(* hold raises and ends the run.                                           *)
(***************************************************************************)
EXTENDS Integers, Sequences, FiniteSets

VARIABLES pc, csv, df, df_cat, df_num, charts, top_cities, sample_size,
          df_sample, error

vars == <<pc, csv, df, df_cat, df_num, charts, top_cities, sample_size,
          df_sample, error>>

(***************************************************************************)
(* Program constants.                                                      *)
(***************************************************************************)
nrows == 100000
TopN == 10
SampleCap == 5000
random_state == 42

(***************************************************************************)
(* Bounds of the input family.                                             *)
(***************************************************************************)
MaxExtra == 1      \* rows of the file beyond nrows
MaxCities == 12    \* distinct cities in a file
MaxAbsent == 1     \* columns missing from the header
MaxEntropy == 2    \* values of the operating system's entropy

Min(a, b) == IF a <= b THEN a ELSE b

(***************************************************************************)
(* Run-length encoded columns.                                             *)
(***************************************************************************)
RECURSIVE RunsLen(_)
RunsLen(runs) ==
    IF runs = <<>> THEN 0 ELSE Head(runs).n + RunsLen(Tail(runs))

Compact(runs) == SelectSeq(runs, LAMBDA r : r.n > 0)

\* the first k rows of a column
RECURSIVE TakeRows(_, _)
TakeRows(runs, k) ==
    IF runs = <<>> \/ k <= 0 THEN <<>>
    ELSE IF Head(runs).n >= k THEN <<[n |-> k, c |-> Head(runs).c]>>
    ELSE <<Head(runs)>> \o TakeRows(Tail(runs), k - Head(runs).n)

MapRuns(runs, F(_)) == [i \in DOMAIN runs |-> [n |-> runs[i].n, c |-> F(runs[i].c)]]

CountRows(runs, P(_)) == RunsLen(SelectSeq(runs, LAMBDA r : P(r.c)))

(***************************************************************************)
(* Cells.                                                                  *)
(***************************************************************************)
NaN == [k |-> "nan", v |-> 0, s |-> <<>>]
Num(x) == [k |-> "num", v |-> x, s |-> <<>>]
Str(t) == [k |-> "str", v |-> 0, s |-> t]
Ts(t, secs) == [k |-> "ts", v |-> secs, s |-> t]

notna(c) == c.k # "nan"
isna(c) == c.k = "nan"

DigitChars == <<"0", "1", "2", "3", "4", "5", "6", "7", "8", "9">>
IsDigit(ch) == \E i \in DOMAIN DigitChars : DigitChars[i] = ch
DigitVal(ch) == (CHOOSE i \in DOMAIN DigitChars : DigitChars[i] = ch) - 1

AllDigits(t) == t # <<>> /\ \A i \in DOMAIN t : IsDigit(t[i])

RECURSIVE Decimal(_)
Decimal(t) ==
    IF t = <<>> THEN 0 ELSE 10 * Decimal(SubSeq(t, 1, Len(t) - 1)) + DigitVal(t[Len(t)])

\* the texts read_csv reads as missing (a part of pandas' default na_values)
NAValues == { <<>>, <<"N", "A">>, <<"N", "a", "N">>, <<"n", "a", "n">> }

\* A decimal literal [-]digits[.digits], at most two decimals: the number in
\* hundredths (Unsigned is -1 for a text that is no such literal).
DotAt(t) == { i \in DOMAIN t : t[i] = "." }
Unsigned(t) ==
    IF DotAt(t) = {} THEN (IF AllDigits(t) THEN 100 * Decimal(t) ELSE -1)
    ELSE LET d == CHOOSE i \in DotAt(t) : TRUE
             ip == SubSeq(t, 1, d - 1)
             fp == SubSeq(t, d + 1, Len(t))
         IN  IF Cardinality(DotAt(t)) = 1 /\ AllDigits(ip) /\ AllDigits(fp) /\ Len(fp) <= 2
             THEN 100 * Decimal(ip) + (IF Len(fp) = 1 THEN 10 * Decimal(fp) ELSE Decimal(fp))
             ELSE -1

IsNumberText(t) ==
    IF t # <<>> /\ t[1] = "-" THEN Unsigned(Tail(t)) >= 0 ELSE Unsigned(t) >= 0

NumberOf(t) == IF t[1] = "-" THEN 0 - Unsigned(Tail(t)) ELSE Unsigned(t)

(***************************************************************************)
(* Date texts "YYYY-MM-DD HH:MM:SS".                                       *)
(***************************************************************************)
Field(t, a, b) == SubSeq(t, a, b)
IsLeap(y) == (y % 4 = 0 /\ y % 100 # 0) \/ y % 400 = 0
DaysIn(y, m) ==
    IF m = 2 THEN (IF IsLeap(y) THEN 29 ELSE 28)
    ELSE IF m \in {4, 6, 9, 11} THEN 30 ELSE 31

\* a date text by its shape alone, whatever the numbers
IsDateTextLax(t) ==
    /\ Len(t) = 19
    /\ t[5] = "-" /\ t[8] = "-" /\ t[11] = " " /\ t[14] = ":" /\ t[17] = ":"
    /\ AllDigits(Field(t, 1, 4)) /\ AllDigits(Field(t, 6, 7))
    /\ AllDigits(Field(t, 9, 10)) /\ AllDigits(Field(t, 12, 13))
    /\ AllDigits(Field(t, 15, 16)) /\ AllDigits(Field(t, 18, 19))

IsDateText(t) ==
    /\ Len(t) = 19
    /\ t[5] = "-" /\ t[8] = "-" /\ t[11] = " " /\ t[14] = ":" /\ t[17] = ":"
    /\ AllDigits(Field(t, 1, 4)) /\ AllDigits(Field(t, 6, 7))
    /\ AllDigits(Field(t, 9, 10)) /\ AllDigits(Field(t, 12, 13))
    /\ AllDigits(Field(t, 15, 16)) /\ AllDigits(Field(t, 18, 19))
    /\ Decimal(Field(t, 1, 4)) >= 1
    /\ Decimal(Field(t, 6, 7)) \in 1..12
    /\ Decimal(Field(t, 9, 10)) \in 1..DaysIn(Decimal(Field(t, 1, 4)), Decimal(Field(t, 6, 7)))
    /\ Decimal(Field(t, 12, 13)) <= 23
    /\ Decimal(Field(t, 15, 16)) <= 59
    /\ Decimal(Field(t, 18, 19)) <= 59

SecondsOfDay(t) ==
    3600 * Decimal(Field(t, 12, 13)) + 60 * Decimal(Field(t, 15, 16))
        + Decimal(Field(t, 18, 19))

EpochText == <<"1", "9", "7", "0", "-", "0", "1", "-", "0", "1", " ",
               "0", "0", ":", "0", "0", ":", "0", "0">>
EpochEve == <<"1", "9", "6", "9", "-", "1", "2", "-", "3", "1", " ",
              "2", "3", ":", "5", "9", ":", "5", "9">>

(***************************************************************************)
(* pandas, as the script uses it.                                          *)
(***************************************************************************)
\* read_csv's cell: an NA text is missing; in a numeric column the text's number,
\* in an object column the text.
ParseCell(t, dtype) ==
    IF t \in NAValues THEN NaN
    ELSE IF dtype = "number" THEN Num(NumberOf(t)) ELSE Str(t)

\* read_csv's dtype of a column of texts: a number when every text that is not NA
\* is a number; a frame of no rows has object columns only.
InferDtype(texts) ==
    IF texts = <<>> THEN "object"
    ELSE IF \A i \in DOMAIN texts : texts[i].c \in NAValues \/ IsNumberText(texts[i].c)
         THEN "number" ELSE "object"

\* read_csv without nrows
read_csv_whole(file, limit) ==
    [cols  |-> file.header,
     len   |-> file.rows,
     dtype |-> [c \in file.header |-> InferDtype(file.col[c])],
     data  |-> [c \in file.header |->
                   MapRuns(file.col[c], LAMBDA t : ParseCell(t, InferDtype(file.col[c])))]]

read_csv(file, limit) ==
    LET len == Min(file.rows, limit)
        txt(c) == TakeRows(file.col[c], limit)
    IN  [cols  |-> file.header,
         len   |-> len,
         dtype |-> [c \in file.header |-> InferDtype(txt(c))],
         data  |-> [c \in file.header |->
                       MapRuns(txt(c), LAMBDA t : ParseCell(t, InferDtype(txt(c))))]]

Restrict(frame, keep) ==
    [cols  |-> keep,
     len   |-> frame.len,
     dtype |-> [c \in keep |-> frame.dtype[c]],
     data  |-> [c \in keep |-> frame.data[c]]]

count(frame, c) == CountRows(frame.data[c], notna)

(***************************************************************************)
(* thresh = len(df) * (1 - missing_threshold) is a product of doubles.     *)
(* Naturals beyond the machine's are sequences of bits, lowest first.      *)
(***************************************************************************)
RECURSIVE Bits(_)
Bits(n) == IF n = 0 THEN <<>> ELSE <<n % 2>> \o Bits(n \div 2)

RECURSIVE Trim(_)
Trim(b) == IF b # <<>> /\ b[Len(b)] = 0 THEN Trim(SubSeq(b, 1, Len(b) - 1)) ELSE b

RECURSIVE Times(_, _, _)
Times(b, n, carry) ==
    IF b = <<>> THEN Bits(carry)
    ELSE <<(Head(b) * n + carry) % 2>> \o Times(Tail(b), n, (Head(b) * n + carry) \div 2)

RECURSIVE Succ(_)
Succ(b) ==
    IF b = <<>> THEN <<1>>
    ELSE IF Head(b) = 0 THEN <<1>> \o Tail(b) ELSE <<0>> \o Succ(Tail(b))

ShiftLeft(b, k) == IF b = <<>> THEN <<>> ELSE [i \in 1..k |-> 0] \o b

\* -1, 0, 1 as a < b, a = b, a > b, for trimmed a and b
RECURSIVE Compare(_, _)
Compare(a, b) ==
    IF Len(a) # Len(b) THEN (IF Len(a) < Len(b) THEN 0 - 1 ELSE 1)
    ELSE IF a = <<>> THEN 0
    ELSE IF a[Len(a)] # b[Len(b)] THEN (IF a[Len(a)] < b[Len(b)] THEN 0 - 1 ELSE 1)
    ELSE Compare(SubSeq(a, 1, Len(a) - 1), SubSeq(b, 1, Len(b) - 1))

\* The significand of 1 - missing_threshold = 1 - 0.3, the double
\* 0x1.6666666666666p-1 = KeepSignificand / 2^53 (the subtraction's exact result
\* lies halfway between two doubles and rounds to the even one, which is also the
\* double nearest 0.7).
KeepSignificand == [i \in 1..53 |-> IF i = 53 \/ (i - 1) % 4 \in {1, 2} THEN 1 ELSE 0]

\* The double nearest to m / 2^53, ties to even, as [sig, exp] for sig * 2^exp / 2^53.
RoundDouble(m) ==
    IF Len(m) <= 53 THEN [sig |-> m, exp |-> 0]
    ELSE LET s == Len(m) - 53
             q == SubSeq(m, s + 1, Len(m))
             up == /\ m[s] = 1
                   /\ q[1] = 1 \/ \E i \in 1..(s - 1) : m[i] = 1
         IN  [sig |-> IF up THEN Succ(q) ELSE q, exp |-> s]

\* len(df) * (1 - missing_threshold)
Thresh(len) == RoundDouble(Trim(Times(KeepSignificand, len, 0)))

\* cnt against thresh: -1, 0, 1
AgainstThresh(cnt, thresh) ==
    Compare(ShiftLeft(Bits(cnt), 53), ShiftLeft(thresh.sig, thresh.exp))

\* count > thresh
ExceedsThresh(cnt, thresh) == AgainstThresh(cnt, thresh) > 0

\* count >= thresh
MeetsThresh(cnt, thresh) == AgainstThresh(cnt, thresh) >= 0

\* DataFrame.dropna(thresh = ..., axis = 1)
dropna(frame) ==
    LET thresh == Thresh(frame.len)
    IN  Restrict(frame, { c \in frame.cols : MeetsThresh(count(frame, c), thresh) })

select_dtypes(frame, dtype) == { c \in frame.cols : frame.dtype[c] = dtype }

\* DataFrame.drop(labels, axis = 1, errors = 'ignore')
drop(frame, labels) == Restrict(frame, frame.cols \ labels)

\* df[c] = values
Assign(frame, c, dtype, values) ==
    [cols  |-> frame.cols \cup {c},
     len   |-> frame.len,
     dtype |-> [x \in frame.cols \cup {c} |-> IF x = c THEN dtype ELSE frame.dtype[x]],
     data  |-> [x \in frame.cols \cup {c} |-> IF x = c THEN values ELSE frame.data[x]]]

\* errors='raise'
NumericErrorsRaise == "raise"

\* the errors= argument of the three to_numeric calls, and of to_datetime
NumericErrors == "coerce"
DatetimeErrors == "coerce"

NumericFails(c) == c.k = "str" /\ ~IsNumberText(c.s)
NumericCell(c) ==
    IF c.k = "str" THEN (IF IsNumberText(c.s) THEN Num(NumberOf(c.s)) ELSE NaN)
    ELSE c

\* pd.to_numeric(series, errors): the series, or raised
to_numeric(runs, errors) ==
    IF errors = "raise" /\ \E i \in DOMAIN runs : NumericFails(runs[i].c)
    THEN [raised |-> TRUE, values |-> <<>>]
    ELSE [raised |-> FALSE, values |-> MapRuns(runs, NumericCell)]

\* A number is nanoseconds since the epoch: every number of a frame here is less
\* than an hour of them, on either side of the epoch.
DatetimeFails(c) == c.k = "str" /\ ~IsDateText(c.s)
DatetimeCell(c) ==
    IF c.k = "str" THEN (IF IsDateText(c.s) THEN Ts(c.s, SecondsOfDay(c.s)) ELSE NaN)
    ELSE IF c.k = "num"
         THEN (IF c.v >= 0 THEN Ts(EpochText, 0) ELSE Ts(EpochEve, SecondsOfDay(EpochEve)))
    ELSE c

\* pd.to_datetime(series, errors)
to_datetime(runs, errors) ==
    IF errors = "raise" /\ \E i \in DOMAIN runs : DatetimeFails(runs[i].c)
    THEN [raised |-> TRUE, values |-> <<>>]
    ELSE [raised |-> FALSE, values |-> MapRuns(runs, DatetimeCell)]

\* Series.dt.hour
HourCell(c) == IF c.k = "ts" THEN Num(100 * (c.v \div 3600)) ELSE NaN
dt_hour(runs) == MapRuns(runs, HourCell)

\* Series.value_counts(): the values that are not missing, each with its number of
\* rows, largest first; values of equal count stay in their order of appearance.
RECURSIVE Distinct(_, _)
Distinct(runs, seen) ==
    IF runs = <<>> THEN <<>>
    ELSE IF isna(Head(runs).c) \/ Head(runs).c \in seen THEN Distinct(Tail(runs), seen)
    ELSE <<Head(runs).c>> \o Distinct(Tail(runs), seen \cup {Head(runs).c})

RowsOf(runs, x) == RunsLen(SelectSeq(runs, LAMBDA r : r.c = x))

Tally(runs) ==
    LET d == Distinct(runs, {})
    IN  [i \in DOMAIN d |-> [value |-> d[i], count |-> RowsOf(runs, d[i])]]

RECURSIVE InsertDesc(_, _)
InsertDesc(sorted, e) ==
    IF sorted = <<>> THEN <<e>>
    ELSE IF Head(sorted).count >= e.count THEN <<Head(sorted)>> \o InsertDesc(Tail(sorted), e)
    ELSE <<e>> \o sorted

RECURSIVE SortDesc(_)
SortDesc(series) ==
    IF series = <<>> THEN <<>>
    ELSE InsertDesc(SortDesc(SubSeq(series, 1, Len(series) - 1)), series[Len(series)])

value_counts(runs) == SortDesc(Tally(runs))

\* the n smallest, largest first
nsmallest(series, n) ==
    SubSeq(SortDesc(series), Len(series) - Min(n, Len(series)) + 1, Len(series))

\* Series.nlargest(n), keep = 'first'
nlargest(series, n) == SubSeq(SortDesc(series), 1, Min(n, Len(series)))

\* DataFrame.sample(n, random_state): n positions drawn without replacement by a
\* generator seeded with random_state, or with the system's entropy when there is
\* none (seed < 0).  The positions are a set of intervals <<lo, hi>> of row
\* numbers; the generator's permutation is stood for by a rotation of the rows.
SamplePositions(len, n, g) ==
    IF n = 0 THEN <<>>
    ELSE LET start == g % len
         IN  IF start + n <= len THEN << <<start, start + n - 1>> >>
             ELSE << <<0, start + n - len - 1>>, <<start, len - 1>> >>

sample(frame, n, seed, entropy) ==
    IF n > frame.len
    THEN [raised |-> TRUE, cols |-> {}, idx |-> <<>>]
    ELSE [raised |-> FALSE, cols |-> frame.cols,
          idx |-> SamplePositions(frame.len, n, IF seed >= 0 THEN seed ELSE entropy)]

(***************************************************************************)
(* The input files.  A file has a header, a number of data rows and, for   *)
(* every column of the header, that many cell texts.  The family: every    *)
(* column holds its usual text in every row, but for one column, where     *)
(* some rows hold another text or the rows name up to MaxCities cities.    *)
(***************************************************************************)
Columns ==
    { "ID", "City", "Severity", "Road_Condition", "Weather_Condition",
      "Wind_Speed(mph)", "Start_Lng", "Start_Lat", "Temperature(F)", "Start_Time",
      "State", "Description", "Zipcode", "Weather_Timestamp", "Airport_Code" }

DateColumns == { "Start_Time", "Weather_Timestamp" }
NumberColumns ==
    { "Severity", "Wind_Speed(mph)", "Start_Lng", "Start_Lat", "Temperature(F)", "Zipcode" }

DateText(h1, h2) ==
    <<"2", "0", "1", "6", "-", "0", "2", "-", "0", "8", " ", h1, h2, ":", "4", "6", ":", "0", "0">>

UsualText(c) ==
    CASE c = "ID" -> <<"A", "-", "1">>
      [] c = "City" -> <<"C", "0", "1">>
      [] c = "Severity" -> <<"2">>
      [] c = "Road_Condition" -> <<"w", "e", "t">>
      [] c = "Weather_Condition" -> <<"r", "a", "i", "n">>
      [] c = "Wind_Speed(mph)" -> <<"5", ".", "8">>
      [] c = "Start_Lng" -> <<"-", "8", "4", ".", "0", "6">>
      [] c = "Start_Lat" -> <<"3", "9", ".", "8", "7">>
      [] c = "Temperature(F)" -> <<"3", "6", ".", "9">>
      [] c = "Start_Time" -> DateText("0", "5")
      [] c = "State" -> <<"O", "H">>
      [] c = "Description" -> <<"j", "a", "m">>
      [] c = "Zipcode" -> <<"4", "5", "4", "2", "4">>
      [] c = "Weather_Timestamp" -> DateText("0", "6")
      [] c = "Airport_Code" -> <<"K", "F", "F", "O">>

OtherTexts(c) ==
    IF c \in DateColumns
    THEN { <<>>, <<"x">>, DateText("2", "3"), DateText("2", "4") }
    ELSE IF c \in NumberColumns
    THEN { <<>>, <<"N", "A">>, <<"x">>, <<"-", "7">> }
    ELSE { <<>>, <<"1", "2">> }

Layouts == { "head1", "tail30", "tail31", "all" }

\* the rows of a column that hold the other text
OtherRows(layout, R) ==
    CASE layout = "head1" -> Min(1, R)
      [] layout = "tail30" -> (3 * R) \div 10
      [] layout = "tail31" -> Min(R, (3 * R) \div 10 + 1)
      [] layout = "all" -> R

CityText(i) == <<"C", DigitChars[(i \div 10) + 1], DigitChars[(i % 10) + 1]>>

\* "asc": city i in i adjacent rows, then city 1 to the end of the file;
\* "eq": the cities one row each, twice over, then the last city to the end.
CityRuns(k, shape, R) ==
    LET body == IF shape = "asc" THEN [i \in 1..k |-> [n |-> i, c |-> CityText(i)]]
                ELSE [i \in 1..(2 * k) |-> [n |-> 1, c |-> CityText(((i - 1) % k) + 1)]]
        fill == IF shape = "asc" THEN CityText(1) ELSE CityText(k)
    IN  TakeRows(body \o <<[n |-> R, c |-> fill]>>, R)

NoVariation == [col |-> "", other |-> <<>>, layout |-> "none", k |-> 0]

Variations ==
    {NoVariation}
    \cup { [col |-> c, other |-> t, layout |-> l, k |-> 0] :
             c \in Columns, t \in UNION { OtherTexts(x) : x \in Columns }, l \in Layouts }
    \cup { [col |-> "City", other |-> <<>>, layout |-> l, k |-> k] :
             l \in {"asc", "eq"}, k \in {3, TopN, MaxCities - 1, MaxCities} }

ColumnTexts(c, v, R) ==
    IF v.col # c THEN Compact(<<[n |-> R, c |-> UsualText(c)]>>)
    ELSE IF v.k > 0 THEN CityRuns(v.k, v.layout, R)
    ELSE IF v.layout = "head1"
    THEN Compact(<<[n |-> OtherRows(v.layout, R), c |-> v.other],
                   [n |-> R - OtherRows(v.layout, R), c |-> UsualText(c)]>>)
    ELSE Compact(<<[n |-> R - OtherRows(v.layout, R), c |-> UsualText(c)],
                   [n |-> OtherRows(v.layout, R), c |-> v.other]>>)

MakeCsv(R, absent, v) ==
    [header |-> Columns \ absent,
     rows   |-> R,
     col    |-> [c \in Columns \ absent |-> ColumnTexts(c, v, R)]]

RowCounts ==
    { 0, 1, 7, 10, 20, SampleCap, SampleCap + 10, nrows } \cup { nrows + i : i \in 1..MaxExtra }

Headers == { a \in SUBSET Columns : Cardinality(a) <= MaxAbsent }

Entropy == 0..MaxEntropy

NoFrame == [cols |-> {}, len |-> 0, dtype |-> <<>>, data |-> <<>>]
NoSample == [raised |-> FALSE, cols |-> {}, idx |-> <<>>]
NoError == [kind |-> "", step |-> "", col |-> ""]

Init ==
    /\ \E R \in RowCounts, absent \in Headers, v \in Variations :
          /\ v.col = "" \/ v.other \in OtherTexts(v.col)
          /\ v = NoVariation \/ absent = {} \/ R = 10
          /\ csv = MakeCsv(R, absent, v)
    /\ pc = "load"
    /\ df = NoFrame
    /\ df_cat = {}
    /\ df_num = {}
    /\ charts = <<>>
    /\ top_cities = <<>>
    /\ sample_size = 0
    /\ df_sample = NoSample
    /\ error = NoError

(***************************************************************************)
(* The script, statement by statement.                                     *)
(***************************************************************************)
Steps ==
    << "load", "prune", "split", "drop", "coerce_lng", "coerce_lat", "coerce_temp",
       "heatmap", "cities", "severity", "road", "weather", "time", "scatter",
       "boxplot", "violin", "density", "sample", "pairplot", "done" >>

\* the weather chart ahead of the road chart
FollowingSwapped(step) ==
    LET swapped == [i \in DOMAIN Steps |->
                      IF Steps[i] = "road" THEN "weather"
                      ELSE IF Steps[i] = "weather" THEN "road" ELSE Steps[i]]
    IN  swapped[(CHOOSE i \in DOMAIN swapped : swapped[i] = step) + 1]

\* the statement after a statement: the script has no loop and no jump
Following(step) == Steps[(CHOOSE i \in DOMAIN Steps : Steps[i] = step) + 1]

Goto(next) == pc' = next

\* an exception nothing catches ends the run
Raise(kind, col) ==
    /\ pc' = "aborted"
    /\ error' = [kind |-> kind, step |-> pc, col |-> col]

\* plt.show()
Show(chart) == charts' = Append(charts, chart)

Load ==
    /\ pc = "load"
    /\ df' = read_csv(csv, nrows)
    /\ Goto(Following(pc))
    /\ UNCHANGED <<csv, df_cat, df_num, charts, top_cities, sample_size, df_sample, error>>

Prune ==
    /\ pc = "prune"
    /\ df' = dropna(df)
    /\ Goto(Following(pc))
    /\ UNCHANGED <<csv, df_cat, df_num, charts, top_cities, sample_size, df_sample, error>>

Split ==
    /\ pc = "split"
    /\ df_cat' = select_dtypes(df, "object") \ {"ID"}
    /\ df_num' = select_dtypes(df, "number")
    /\ Goto(Following(pc))
    /\ UNCHANGED <<csv, df, charts, top_cities, sample_size, df_sample, error>>

DropUseless ==
    /\ pc = "drop"
    /\ df_cat' = df_cat \ {"Description", "Zipcode", "Weather_Timestamp"}
    /\ df' = drop(df, {"Airport_Code"})
    /\ Goto(Following(pc))
    /\ UNCHANGED <<csv, df_num, charts, top_cities, sample_size, df_sample, error>>

\* df[col] = pd.to_numeric(df[col], errors='coerce')
Coerce(step, col) ==
    /\ pc = step
    /\ IF col \notin df.cols
       THEN Raise("KeyError", col) /\ UNCHANGED df
       ELSE LET r == to_numeric(df.data[col], NumericErrors)
            IN  IF r.raised
                THEN Raise("ValueError", col) /\ UNCHANGED df
                ELSE /\ df' = Assign(df, col, "number", r.values)
                     /\ Goto(Following(pc))
                     /\ UNCHANGED error
    /\ UNCHANGED <<csv, df_cat, df_num, charts, top_cities, sample_size, df_sample>>

CoerceLng == Coerce("coerce_lng", "Start_Lng")
CoerceLat == Coerce("coerce_lat", "Start_Lat")
CoerceTemp == Coerce("coerce_temp", "Temperature(F)")

Heatmap ==
    /\ pc = "heatmap"
    /\ Show("heatmap")
    /\ Goto(Following(pc))
    /\ UNCHANGED <<csv, df, df_cat, df_num, top_cities, sample_size, df_sample, error>>

Cities ==
    /\ pc = "cities"
    /\ IF "City" \in df.cols
       THEN /\ top_cities' = nlargest(value_counts(df.data["City"]), TopN)
            /\ Show("cities")
       ELSE UNCHANGED <<top_cities, charts>>
    /\ Goto(Following(pc))
    /\ UNCHANGED <<csv, df, df_cat, df_num, sample_size, df_sample, error>>

\* if <every column of needs> in df.columns: ... plt.show()
Guarded(step, needs, chart) ==
    /\ pc = step
    /\ IF needs \subseteq df.cols THEN Show(chart) ELSE UNCHANGED charts
    /\ Goto(Following(pc))
    /\ UNCHANGED <<csv, df, df_cat, df_num, top_cities, sample_size, df_sample, error>>

Severity == Guarded("severity", {"Severity"}, "severity")
Road == Guarded("road", {"Road_Condition"}, "road")
Weather == Guarded("weather", {"Weather_Condition"}, "weather")

TimeOfDay ==
    /\ pc = "time"
    /\ IF "Start_Time" \notin df.cols
       THEN Raise("KeyError", "Start_Time") /\ UNCHANGED <<df, charts>>
       ELSE LET r == to_datetime(df.data["Start_Time"], DatetimeErrors)
            IN  IF r.raised
                THEN Raise("ValueError", "Start_Time") /\ UNCHANGED <<df, charts>>
                ELSE /\ df' = Assign(Assign(df, "Start_Time", "datetime", r.values),
                                     "Hours", "number", dt_hour(r.values))
                     /\ Show("time")
                     /\ Goto(Following(pc))
                     /\ UNCHANGED error
    /\ UNCHANGED <<csv, df_cat, df_num, top_cities, sample_size, df_sample>>

\* sns.scatterplot(x='Start_Lng', y='Start_Lat', data=df, hue='State') and
\* df['State'].unique()
Scatter ==
    /\ pc = "scatter"
    /\ IF \E c \in {"Start_Lng", "Start_Lat", "State"} : c \notin df.cols
       THEN /\ Raise("ValueError",
                     CHOOSE c \in {"Start_Lng", "Start_Lat", "State"} : c \notin df.cols)
            /\ UNCHANGED charts
       ELSE Show("scatter") /\ Goto(Following(pc)) /\ UNCHANGED error
    /\ UNCHANGED <<csv, df, df_cat, df_num, top_cities, sample_size, df_sample>>

Boxplot == Guarded("boxplot", {"Severity", "Temperature(F)"}, "boxplot")
Violin == Guarded("violin", {"Wind_Speed(mph)", "Severity"}, "violin")

Density ==
    /\ pc = "density"
    /\ IF "Temperature(F)" \notin df.cols
       THEN Raise("KeyError", "Temperature(F)") /\ UNCHANGED charts
       ELSE Show("density") /\ Goto(Following(pc)) /\ UNCHANGED error
    /\ UNCHANGED <<csv, df, df_cat, df_num, top_cities, sample_size, df_sample>>

SampleSize(len) == Min(len, SampleCap)
\* random_state=None
SampleSeedNone == 0 - 1
SampleSeed == random_state

Sample ==
    /\ pc = "sample"
    /\ sample_size' = SampleSize(df.len)
    /\ \E e \in Entropy :
          LET r == sample(df, sample_size', SampleSeed, e)
          IN  IF r.raised
              THEN Raise("ValueError", "") /\ UNCHANGED df_sample
              ELSE df_sample' = r /\ Goto(Following(pc)) /\ UNCHANGED error
    /\ UNCHANGED <<csv, df, df_cat, df_num, charts, top_cities>>

\* sns.pairplot(df_sample[df_num.columns], ...)
Pairplot ==
    /\ pc = "pairplot"
    /\ IF df_num \subseteq df_sample.cols
       THEN Show("pairplot") /\ Goto(Following(pc)) /\ UNCHANGED error
       ELSE /\ Raise("KeyError", CHOOSE c \in df_num : c \notin df_sample.cols)
            /\ UNCHANGED charts
    /\ UNCHANGED <<csv, df, df_cat, df_num, top_cities, sample_size, df_sample>>

Next ==
    \/ Load \/ Prune \/ Split \/ DropUseless
    \/ CoerceLng \/ CoerceLat \/ CoerceTemp
    \/ Heatmap \/ Cities \/ Severity \/ Road \/ Weather
    \/ TimeOfDay \/ Scatter \/ Boxplot \/ Violin \/ Density
    \/ Sample \/ Pairplot

Spec == Init /\ [][Next]_vars

(***************************************************************************)
(* Properties.                                                             *)
(***************************************************************************)
StepNo(step) == CHOOSE i \in DOMAIN Steps : Steps[i] = step
\* the statement the run is at, or was at when it ended
At == IF pc = "aborted" THEN error.step ELSE pc
\* the statement has been executed to its end
Completed(step) == StepNo(At) > StepNo(step)

missing(frame, c) == CountRows(frame.data[c], isna)

\* C1: right after the load the frame holds min(R, 100000) rows for a file of R
\* data rows, and the frame never holds more than 100000 rows (every column of it
\* being as long as the frame).
C1_BoundedSample ==
    /\ pc = "prune" => df.len = (IF csv.rows <= 100000 THEN csv.rows ELSE 100000)
    /\ df.len <= 100000
    /\ \A c \in df.cols : RunsLen(df.data[c]) = df.len

C1_Witness == pc = "done" /\ csv.rows > 100000 /\ df.len = 100000

\* the pruning statement, from the frame before it to the frame after it
C2_PruneStep ==
    pc = "prune" =>
        /\ df'.cols \subseteq df.cols
        /\ df'.len = df.len
        /\ \A c \in df.cols :
              /\ c \in df'.cols <=> 10 * (df.len - missing(df, c)) >= 7 * df.len
              /\ c \notin df'.cols <=> 10 * missing(df, c) > 3 * df.len
        /\ \A c \in df'.cols :
              /\ 10 * missing(df', c) <= 3 * df'.len
              /\ df'.data[c] = df.data[c]

\* C2: the pruning keeps a column exactly when its non-missing cells are at least
\* 70% of the rows, that is, drops it iff more than 30% of its cells are missing (a
\* column with exactly 30% missing stays); the columns left have at most 30%
\* missing and are unchanged.
C2_Pruning == [][C2_PruneStep]_vars

C2_Witness ==
    /\ pc = "split"
    /\ df.len = 100000
    /\ \E c \in df.cols : missing(df, c) = 30000

ChartOrder ==
    << "heatmap", "cities", "severity", "road", "weather", "time", "scatter",
       "boxplot", "violin", "density", "pairplot" >>
ChartNo(chart) == CHOOSE i \in DOMAIN ChartOrder : ChartOrder[i] = chart

\* C3: the charts shown are in the one fixed order, none twice, and no chart is
\* shown before the load, the pruning and the three numeric coercions are over.
C3_FixedOrder ==
    /\ \A i \in DOMAIN charts : \E j \in DOMAIN ChartOrder : ChartOrder[j] = charts[i]
    /\ \A i, j \in DOMAIN charts : i < j => ChartNo(charts[i]) < ChartNo(charts[j])
    /\ charts # <<>> => Completed("coerce_temp")

C3_Witness == pc = "done" /\ charts = ChartOrder

\* C4 (as claimed): once the useless columns are dropped, df holds none of
\* Description, Zipcode, Weather_Timestamp and Airport_Code.
C4_UselessColumnsGone ==
    Completed("drop") =>
        df.cols \cap {"Description", "Zipcode", "Weather_Timestamp", "Airport_Code"} = {}

IsNumberCell(c) == c.k = "num" \/ (c.k = "str" /\ IsNumberText(c.s))
ValueOfCell(c) == IF c.k = "num" THEN c.v ELSE NumberOf(c.s)

Coerced(before, after, col) ==
    /\ after.len = before.len
    /\ after.cols = before.cols
    /\ \A c \in before.cols \ {col} :
          after.data[c] = before.data[c] /\ after.dtype[c] = before.dtype[c]
    /\ DOMAIN after.data[col] = DOMAIN before.data[col]
    /\ \A i \in DOMAIN before.data[col] :
          LET a == before.data[col][i]
              b == after.data[col][i]
          IN  /\ b.n = a.n
              /\ IF IsNumberCell(a.c) THEN b.c = Num(ValueOfCell(a.c)) ELSE b.c = NaN

CoercedColumn(step) ==
    CASE step = "coerce_lng" -> "Start_Lng"
      [] step = "coerce_lat" -> "Start_Lat"
      [] step = "coerce_temp" -> "Temperature(F)"

C5_CoerceStep ==
    \A step \in {"coerce_lng", "coerce_lat", "coerce_temp"} :
       pc = step /\ CoercedColumn(step) \in df.cols =>
           pc' = Following(step) /\ Coerced(df, df', CoercedColumn(step))

\* C5: a numeric coercion of Start_Lng, Start_Lat or Temperature(F) on a frame that
\* holds the column always goes through; a cell that is no number becomes missing,
\* a cell that is one keeps its value, and the rows and the other columns stay.
C5_Coercion == [][C5_CoerceStep]_vars

C5_Witness ==
    /\ pc = "heatmap"
    /\ \E c \in {"Start_Lng", "Start_Lat", "Temperature(F)"} :
          /\ \E i \in DOMAIN csv.col[c] : csv.col[c][i].c = <<"x">>
          /\ \E i \in DOMAIN df.data[c] : df.data[c][i].c = NaN
          /\ \E i \in DOMAIN df.data[c] : df.data[c][i].c.k = "num"

CitiesOf(frame) ==
    { frame.data["City"][i].c : i \in DOMAIN frame.data["City"] } \ {NaN}
RECURSIVE RowsNaming(_, _)
RowsNaming(runs, city) ==
    IF runs = <<>> THEN 0
    ELSE (IF Head(runs).c = city THEN Head(runs).n ELSE 0) + RowsNaming(Tail(runs), city)
Shown == { top_cities[i].value : i \in DOMAIN top_cities }

\* C6: the hotspot chart lists min(10, number of distinct cities) cities, no city
\* twice, in non-increasing order of count, each with the number of rows of df that
\* name it, and no city left out has more rows than a city shown.
C6_TopCities ==
    Completed("cities") /\ "City" \in df.cols =>
        /\ Len(top_cities) = (IF Cardinality(CitiesOf(df)) < 10
                              THEN Cardinality(CitiesOf(df)) ELSE 10)
        /\ Cardinality(Shown) = Len(top_cities)
        /\ Shown \subseteq CitiesOf(df)
        /\ \A i \in DOMAIN top_cities :
              top_cities[i].count = RowsNaming(df.data["City"], top_cities[i].value)
        /\ \A i, j \in DOMAIN top_cities :
              i < j => top_cities[i].count >= top_cities[j].count
        /\ \A x \in CitiesOf(df) \ Shown : \A i \in DOMAIN top_cities :
              RowsNaming(df.data["City"], x) <= top_cities[i].count

C6_Witness ==
    /\ pc = "done"
    /\ "City" \in df.cols
    /\ Cardinality(CitiesOf(df)) > 10
    /\ Len(top_cities) = 10
    /\ top_cities[1].count > top_cities[10].count

\* the number of rows in a set of intervals
RECURSIVE Drawn(_)
Drawn(idx) ==
    IF idx = <<>> THEN 0 ELSE (Head(idx)[2] - Head(idx)[1] + 1) + Drawn(Tail(idx))

\* C7: the pairplot sample holds min(len(df), 5000) rows of df, no row twice, the
\* draw never fails for want of rows, and the rows drawn do not depend on the
\* system's entropy: every run on the same file draws the same rows.
C7_Sample ==
    /\ ~(pc = "aborted" /\ error.step = "sample")
    /\ Completed("sample") =>
          /\ Drawn(df_sample.idx) = (IF df.len < 5000 THEN df.len ELSE 5000)
          /\ \A i \in DOMAIN df_sample.idx :
                /\ 0 <= df_sample.idx[i][1]
                /\ df_sample.idx[i][1] <= df_sample.idx[i][2]
                /\ df_sample.idx[i][2] < df.len
          /\ \A i, j \in DOMAIN df_sample.idx :
                i < j => df_sample.idx[i][2] < df_sample.idx[j][1]
          /\ \A e \in Entropy : sample(df, sample_size, SampleSeed, e) = df_sample

C7_Witness == pc = "done" /\ df.len > 5000 /\ Drawn(df_sample.idx) = 5000

ColumnsRead ==
    { "City", "Severity", "Road_Condition", "Weather_Condition", "Wind_Speed(mph)",
      "Start_Lng", "Start_Lat", "Temperature(F)", "Start_Time", "State" }

\* C8 (as claimed): no run ends because a column a statement reads is not in the
\* frame.
C8_AbsentColumnSkipped ==
    ~(pc = "aborted" /\ error.col \in ColumnsRead /\ error.col \notin df.cols)

IsDatetimeCell(c) == c.k \in {"num", "ts"} \/ (c.k = "str" /\ IsDateText(c.s))

C9_TimeStep ==
    pc = "time" /\ pc' # "aborted" =>
        /\ df'.len = df.len
        /\ "Hours" \in df'.cols
        /\ RunsLen(df'.data["Hours"]) = df.len
        /\ DOMAIN df'.data["Hours"] = DOMAIN df.data["Start_Time"]
        /\ \A i \in DOMAIN df.data["Start_Time"] :
              LET a == df.data["Start_Time"][i]
                  h == df'.data["Hours"][i]
              IN  /\ h.n = a.n
                  /\ h.c = NaN \/ \E x \in 0..23 : h.c = Num(100 * x)
                  /\ h.c = NaN <=> ~IsDatetimeCell(a.c)

\* C9: the time-of-day statement keeps the rows; the Hours of a row is missing or
\* a whole number in 0..23, and missing exactly when the row's Start_Time is no
\* datetime.
C9_Hours == [][C9_TimeStep]_vars

C9_Witness ==
    /\ pc = "done"
    /\ \E i \in DOMAIN df.data["Hours"] : df.data["Hours"][i].c = NaN
    /\ \E i \in DOMAIN df.data["Hours"] : df.data["Hours"][i].c = Num(500)
    /\ \E i \in DOMAIN csv.col["Start_Time"] : csv.col["Start_Time"][i].c = DateText("2", "4")

\* C10 (as claimed): from the split on, the numeric columns fixed there are columns
\* of df, so that the pairplot's selection finds them all.
C10_NumericColumnsStay ==
    /\ Completed("split") => df_num \subseteq df.cols
    /\ ~(pc = "aborted" /\ error.step = "pairplot")

====
